---- MODULE Spec2Model ----
(***************************************************************************)
(* telety command line: the interactive session coordinator.               *)
(*                                                                         *)
(* One node process runs one command (host, pipe or join).  The process    *)
(* is single threaded: a macrotask (an input line, a keypress, a signal,   *)
(* a child's exit, an http response, a socket event, a timer) runs one     *)
(* handler to completion; the promise reactions it schedules are           *)
(* microtasks, run first-in first-out before the next macrotask.           *)
(***************************************************************************)
EXTENDS Integers, Sequences, FiniteSets, TLC

VARIABLES
  mode,        \* the command that runs: "host", "pipe" or "join"
  scn,         \* what the surroundings do in this run: "local", "net", "timed"
  proc,        \* the node process: "new", "running", "exited", "crashed"
  mq,          \* the microtask queue (promise reactions), first in first out
  burst,       \* a line event was the last thing run in the current macrotask
  alive,       \* ids of the spawned child processes that have not exited
  spawned,     \* number of child processes spawned so far
  waiters,     \* ChildPromise listeners on the running child, in registration order
  h,           \* HostCommand / PipeCommand fields
  hooks,       \* webhook POSTs in flight (host, pipe)
  lineBuf,     \* the readline interface's line buffer
  j,           \* JoinCommand (TeletyCommand) fields
  io,          \* the Prompt instance of TeletyCommand.io
  phist,       \* the static Prompt.history
  recv,        \* invocations of JoinCommand.receiver
  sock,        \* SocketClient fields
  conns,       \* the WebSocket instances created by connect()
  recon,       \* pending reconnect timers (remaining ticks)
  quiet,       \* ticks since the last event of the socket
  nMsgs,       \* number of 'message' events received so far
  ev,          \* the handler that ran last
  nReads,      \* prompt reads opened and not yet resolved
  submitted,   \* number of submissions made at the prompt that are to be recorded
  nCont        \* number of continuation lines typed so far

vars == << mode, scn, proc, mq, burst, alive, spawned, waiters, h, hooks, lineBuf,
           j, io, phist, recv, sock, conns, recon, quiet, nMsgs, ev, nReads,
           submitted,
           nCont >>

procVars == << alive, spawned, waiters >>
hostVars == << h, hooks >>
joinVars == << j, io, phist, recv >>
sockVars == << sock, conns, recon, quiet, nMsgs >>

(***************************************************************************)
(* Bounds of the model.                                                    *)
(***************************************************************************)
MaxSpawn  == 2   \* child processes spawned in one run
MaxCont   == 1   \* continuation lines typed in one run
MaxHooks  == 2   \* webhook POSTs in flight
MaxHist   == 2   \* entries of the Prompt history
MaxMsgs   == 2   \* inbound socket messages in one run
MaxConns  == 2   \* WebSocket instances created in one run
MaxLine   == 3   \* characters of a line typed in a run of SpecText

\* the surroundings of a run.  Local: the user is at the terminal, the webhook
\* and the message fetches answer before the user acts again, the connection
\* stays open once made.
\* Net: responses are late, the connection drops and is made again, signals
\* reach the process; the user submits plain lines one at a time.
Local == scn = "local"
Net   == scn # "local"

\* a join run under Net is kept one command and one message shorter
Budget(max) == IF mode = "join" /\ Net THEN max - 1 ELSE max

(***************************************************************************)
(* Text.  A character is a one-character string, a line a sequence of      *)
(* characters.                                                             *)
(***************************************************************************)
SP == " "
BS == "\\"
HASH == "#"

Whitespace == {SP}

RECURSIVE TrimTrail(_)
TrimTrail(line) ==
  IF line # <<>> /\ line[Len(line)] \in Whitespace
  THEN TrimTrail(SubSeq(line, 1, Len(line) - 1))
  ELSE line

EndsLF(chunk) == chunk # <<>> /\ chunk[Len(chunk)] = BS

StripLF(chunk) == IF EndsLF(chunk) THEN SubSeq(chunk, 1, Len(chunk) - 1) ELSE chunk

RECURSIVE JoinWith(_, _)
JoinWith(parts, sep) ==
  IF parts = <<>> THEN <<>>
  ELSE IF Len(parts) = 1 THEN parts[1]
  ELSE parts[1] \o sep \o JoinWith(Tail(parts), sep)

\* text.map(t => t.replace(REG.LF, '')).join(' ')
ToSingle(chunks) == JoinWith([i \in 1..Len(chunks) |-> StripLF(chunks[i])], <<SP>>)

QUIT == { <<"c","t","r","l","-","d">>, <<"q","u","i","t">>, <<"e","x","i","t">> }

IsQuit(input) == input \in QUIT

\* an input that is never taken for a comment
NotComment(input) == FALSE

\* REG.COMMENT = /^#\s*/
IsComment(input) == input # <<>> /\ input[1] = HASH

\* what the command records in its history: HostCommand all but quit tokens
\* and comments, PipeCommand all but quit tokens, the Prompt of join everything
Recorded(input) ==
  CASE mode = "host" -> ~IsQuit(input) /\ ~IsComment(input)
    [] mode = "pipe" -> ~IsQuit(input)
    [] OTHER         -> TRUE

\* the lines typed at the prompt
Lines == { <<>>, <<"a">>, <<"a", SP>>, <<"a", BS>>, <<HASH, "a">>, <<"e","x","i","t">> }

Keys == {"up", "down"}

\* how a child process ends: exit code 0, exit code not 0, killed by a signal
\* (exit code null), or the 'error' event of a failed spawn
Ends == {"zero", "nonzero", "signal", "error"}

\* a ChildPromise that is fulfilled however the child ends
FulfilsAny(end) == TRUE

\* ChildPromise.resolve: error -> reject; close/exit: code ? reject() : resolve()
Fulfils(end) == end \in {"zero", "signal"}

Min(a, b) == IF a < b THEN a ELSE b
Max(a, b) == IF a > b THEN a ELSE b

(***************************************************************************)
(* Microtasks and the last-handler record.                                 *)
(***************************************************************************)
Job(k, a, n) == [k |-> k, a |-> a, n |-> n, v |-> <<>>]

Ev(k, a, l) == [k |-> k, a |-> a, l |-> l]

\* a handler no property looks at
NoEv == Ev("-", 0, <<>>)

Idle == proc = "running" /\ mq = <<>>

HeadIs(k) == proc = "running" /\ mq # <<>> /\ Head(mq).n = 0 /\ Head(mq).k = k

\* a reaction that only passes a settled promise on to the next one
MicroHop ==
  /\ proc = "running" /\ mq # <<>> /\ Head(mq).n > 0
  /\ mq' = Append(Tail(mq), [Head(mq) EXCEPT !.n = @ - 1])
  /\ burst' = FALSE
  /\ UNCHANGED << mode, scn, proc, procVars, hostVars, lineBuf, joinVars, sockVars,
                  ev, nReads, submitted, nCont >>

(***************************************************************************)
(* HostCommand and PipeCommand.                                            *)
(***************************************************************************)
\* a PromptResult; sub is the submission it was made for, as it was when the
\* read resolved (kept for the properties only)
Entry(input, sub) == [input |-> input, id |-> 0, sub |-> sub]

\* history[hMarker] ? entry.input : ''
EntryAt(history, marker) ==
  IF marker + 1 \in 1..Len(history) THEN history[marker + 1].input ELSE <<>>

\* a cursor that is moved and not clamped
NoClamp(marker, len) == marker

\* Math.min(Math.max(marker, 0), history.length)
Clamp(marker, len) == Min(Max(marker, 0), len)

\* rl.write(null, { ctrl: true, name: 'u' }): delete the line left of the cursor
ClearLine(buf) == <<>>

\* HostCommand.prompt: open a read on the (re)connected readline
HostPrompt ==
  /\ h' = [h EXCEPT !.chunk = <<>>, !.rl = TRUE, !.disconnected = FALSE,
                    !.hMarker = Len(h.history), !.resolve = TRUE]
  /\ lineBuf' = IF h.rl THEN lineBuf ELSE <<>>
  /\ nReads' = nReads + 1

\* run(): init() and the first next()
HostRun ==
  /\ proc = "new" /\ mode \in {"host", "pipe"}
  /\ proc' = "running"
  /\ HostPrompt
  /\ ev' = NoEv
  /\ burst' = FALSE
  /\ UNCHANGED << mode, scn, mq, procVars, hooks, joinVars, sockVars, submitted, nCont >>

\* the resolver installed by prompt(): this.resolve = null; resolve(chunks)
\* the read promise settles with the array this.chunk itself, or with null
HostResolve(ref, sub) ==
  /\ h.resolve
  /\ nReads' = nReads - 1
  /\ mq' = Append(mq, [Job("hostRead", ref, 0) EXCEPT !.v = sub])

\* the readline 'line' listener
HostLine(line) ==
  LET chunk == TrimTrail(line) IN
  /\ proc = "running" /\ mode \in {"host", "pipe"} /\ h.rl
  /\ mq = <<>> \/ burst
  /\ spawned < MaxSpawn /\ Cardinality(hooks) < MaxHooks
  /\ EndsLF(chunk) => nCont < MaxCont
  /\ lineBuf' = <<>>
  /\ ev' = NoEv
  /\ IF chunk = <<>>
     THEN UNCHANGED << h, mq, nReads, proc, submitted, nCont >>
     ELSE IF EndsLF(chunk)
     THEN /\ h' = [h EXCEPT !.chunk = Append(@, chunk)]
          /\ nCont' = nCont + 1
          /\ UNCHANGED << mq, nReads, proc, submitted >>
     ELSE /\ nCont' = nCont
          /\ submitted' = submitted + (IF Recorded(ToSingle(Append(h.chunk, chunk))) THEN 1 ELSE 0)
          /\ IF h.resolve
             THEN /\ HostResolve(1, ToSingle(Append(h.chunk, chunk)))
                  /\ h' = [h EXCEPT !.chunk = Append(@, chunk), !.resolve = FALSE]
                  /\ proc' = proc
             ELSE \* this.resolve is null: TypeError thrown in the listener
                  /\ h' = [h EXCEPT !.chunk = Append(@, chunk)]
                  /\ proc' = "crashed"
                  /\ UNCHANGED << mq, nReads >>
  /\ burst' = (mq' # <<>> /\ proc' = "running")
  /\ UNCHANGED << mode, scn, procVars, hooks, joinVars, sockVars >>

\* the readline 'SIGINT' listener (CTRL-C at the prompt): rlInterrupt
HostInterrupt ==
  /\ Idle /\ mode \in {"host", "pipe"} /\ h.rl
  /\ IF h.resolve
     THEN HostResolve(0, <<>>) /\ h' = [h EXCEPT !.resolve = FALSE]
     ELSE UNCHANGED << h, mq, nReads >>
  /\ ev' = Ev("interrupt", nReads, <<>>)
  /\ burst' = FALSE
  /\ UNCHANGED << mode, scn, proc, procVars, hooks, lineBuf, joinVars, sockVars, submitted, nCont >>

\* process.stdin 'keypress' listener of init()
HostKeypress(key) ==
  LET m == Clamp(h.hMarker + (IF key = "up" THEN -1 ELSE 1), Len(h.history)) IN
  /\ Idle /\ mode \in {"host", "pipe"} /\ h.rl
  /\ h' = [h EXCEPT !.hMarker = m]
  /\ lineBuf' = ClearLine(lineBuf) \o EntryAt(h.history, m)
  /\ ev' = Ev("key", IF key = "up" THEN 1 ELSE 2, <<>>)
  /\ burst' = FALSE
  /\ UNCHANGED << mode, scn, proc, mq, procVars, hooks, joinVars, sockVars, nReads, submitted, nCont >>

\* child.kill(code): the number of the signal sent to the child; signal 0
\* tests that the process exists and delivers nothing
Kill(code) == code

\* what a _teardown(code) call did: a is the child handle it found, l the
\* signal it sent to that child
TeardownEv(child, code) ==
  Ev("teardown", child, << IF child # 0 THEN Kill(code) ELSE 0 >>)

\* _teardown(code) of HostCommand / PipeCommand: kill the child and forget it,
\* or print the notice and exit
HostTeardown ==
  IF h.child # 0
  THEN h' = [h EXCEPT !.child = 0] /\ proc' = proc
  ELSE h' = h /\ proc' = "exited"

\* a readline closed with the disconnected flag left as it is
RlDisconnectLate(hh) == [hh EXCEPT !.rl = FALSE]

\* rlDisconnect(): this.disconnected = true; this.rl.close(); this.rl = null
RlDisconnect(hh) == [hh EXCEPT !.disconnected = TRUE, !.rl = FALSE]

\* rlClosed(), the readline 'close' listener: teardown(0) is called
RlClosed(hh) == ~hh.disconnected

\* the readline 'close' listener on end of transmission (CTRL-D): rlClosed
HostEOT ==
  /\ Idle /\ mode \in {"host", "pipe"} /\ h.rl /\ lineBuf = <<>>
  /\ IF RlClosed(h) THEN HostTeardown ELSE UNCHANGED << h, proc >>
  /\ ev' = NoEv
  /\ burst' = FALSE
  /\ UNCHANGED << mode, scn, mq, procVars, hooks, lineBuf, joinVars, sockVars, nReads, submitted, nCont >>

\* process 'SIGINT' listener of init()
HostSigint ==
  /\ Idle /\ mode \in {"host", "pipe"}
  /\ HostTeardown
  /\ ev' = TeardownEv(h.child, 0)
  /\ burst' = FALSE
  /\ UNCHANGED << mode, scn, mq, procVars, hooks, lineBuf, joinVars, sockVars, nReads, submitted, nCont >>

\* child.spawn(input, { stdio: 'inherit', shell: true }) and ChildPromise.resolve
SpawnChild(waiter) ==
  /\ spawned' = spawned + 1
  /\ alive' = alive \cup {spawned + 1}
  /\ waiters' = << waiter >>

\* processInput(text), up to its first suspension
HostProcessInput ==
  LET text  == IF Head(mq).a = 0 THEN <<>> ELSE h.chunk
      input == ToSingle(text)
      last  == h.history[Len(h.history)]
  IN
  /\ HeadIs("hostRead") /\ mode \in {"host", "pipe"}
  /\ burst' = FALSE
  /\ IF text = <<>>
     THEN \* cancelled or empty: clear the line
          /\ lineBuf' = IF h.rl THEN ClearLine(lineBuf) ELSE lineBuf
          /\ mq' = Append(Tail(mq), Job("hostLoop", 0, 0))
          /\ UNCHANGED << h, hooks, proc, procVars >>
     ELSE IF IsQuit(input)
     THEN /\ HostTeardown
          /\ mq' = Tail(mq)
          /\ UNCHANGED << hooks, lineBuf, procVars >>
     ELSE IF mode = "host" /\ IsComment(input)
     THEN \* appendComment(input)
          /\ hooks' = IF h.history = <<>> THEN hooks
                      ELSE hooks \cup {[type |-> "comment", entry |-> 0, id |-> last.id]}
          /\ mq' = Append(Tail(mq), Job("hostLoop", 0, 0))
          /\ UNCHANGED << h, lineBuf, proc, procVars >>
     ELSE IF RlClosed(RlDisconnect(h)) /\ h.child = 0
     THEN \* the 'close' listener of the detached readline tears down
          /\ h' = RlDisconnect(h)
          /\ proc' = "exited"
          /\ mq' = Tail(mq)
          /\ UNCHANGED << hooks, lineBuf, procVars >>
     ELSE \* executable: detach the readline, spawn, record, notify
          /\ h' = [RlDisconnect(h) EXCEPT
                            !.child = spawned + 1,
                            !.history = Append(@, Entry(input, Head(mq).v))]
          /\ SpawnChild(Job("hostSettle", 0, 0))
          /\ hooks' = hooks \cup {[type |-> IF mode = "host" THEN "message" ELSE "post",
                                      entry |-> Len(h.history) + 1, id |-> 0]}
          /\ mq' = Tail(mq)
          /\ UNCHANGED << lineBuf, proc >>
  /\ ev' = Ev("input", Len(h.history), << input, Head(mq).v, spawned' - spawned >>)
  /\ UNCHANGED << mode, scn, joinVars, sockVars, nReads, submitted, nCont >>

\* the 'error', 'exit' and 'close' events of the running child: every
\* ChildPromise made on it settles, in registration order
ChildEnd(end) ==
  /\ Idle /\ alive # {}
  /\ alive' = {}
  /\ waiters' = <<>>
  /\ mq' = [i \in 1..Len(waiters) |->
              IF waiters[i].k = "recvResume" THEN waiters[i]
              ELSE [waiters[i] EXCEPT !.a = IF Fulfils(end) THEN 1 ELSE 0]]
  /\ ev' = Ev("childEnd", 0, << end >>)
  /\ burst' = FALSE
  /\ UNCHANGED << mode, scn, proc, spawned, hostVars, lineBuf, joinVars, sockVars,
                  nReads, submitted, nCont >>

\* .then(() => this.succeeded = true).catch(e => this.succeeded = false)
HostSettle ==
  /\ HeadIs("hostSettle")
  /\ h' = [h EXCEPT !.succeeded = IF Head(mq).a = 1 THEN "true" ELSE "false"]
  /\ mq' = Append(Tail(mq), Job("hostClear", 0, 0))
  /\ ev' = Ev("settle", Head(mq).a, <<>>)
  /\ burst' = FALSE
  /\ UNCHANGED << mode, scn, proc, procVars, hooks, lineBuf, joinVars, sockVars,
                  nReads, submitted, nCont >>

\* processInput resumes after the await: this.child = null
HostClear ==
  /\ HeadIs("hostClear")
  /\ h' = [h EXCEPT !.child = 0]
  /\ mq' = Append(Tail(mq), Job("hostLoop", 0, 0))
  /\ ev' = Ev("clear", 0, <<>>)
  /\ burst' = FALSE
  /\ UNCHANGED << mode, scn, proc, procVars, hooks, lineBuf, joinVars, sockVars,
                  nReads, submitted, nCont >>

\* next() resumes after await this.processInput(text): this.next()
HostNext ==
  /\ HeadIs("hostLoop")
  /\ HostPrompt
  /\ mq' = Tail(mq)
  /\ ev' = NoEv
  /\ burst' = FALSE
  /\ UNCHANGED << mode, scn, proc, procVars, hooks, joinVars, sockVars, submitted, nCont >>

\* an id that is written to the most recent entry
LastEntry(hk, history) == Len(history)

\* .then(res => res && (hist.id = res.id)): hist is the entry pushed by the
\* processInput call that made the POST
HookEntry(hk, history) == hk.entry

\* a failed POST that is raised to the caller
Propagate(p) == "crashed"

\* .catch(e => this.warn(e)): the failure is printed and goes no further
Swallow(p) == p

\* the response to a webhook POST (callWebhook / post); the id the service
\* gives to the message of entry i is written i
WebhookDone(hk, ok) ==
  /\ Idle /\ hk \in hooks
  /\ hooks' = hooks \ {hk}
  /\ IF ok /\ hk.type = "message"
     THEN h' = [h EXCEPT !.history[HookEntry(hk, h.history)].id = hk.entry]
     ELSE h' = h
  /\ proc' = IF ok THEN proc ELSE Swallow(proc)
  /\ ev' = Ev("hook", hk.entry, << IF ok THEN 1 ELSE 0, h.succeeded >>)
  /\ burst' = FALSE
  /\ UNCHANGED << mode, scn, mq, procVars, lineBuf, joinVars, sockVars,
                  nReads, submitted, nCont >>

(***************************************************************************)
(* Prompt (the prompt class of TeletyCommand) and JoinCommand.             *)
(***************************************************************************)
\* this.io = null
NoIo == [on |-> FALSE, open |-> FALSE, hist |-> <<>>, marker |-> 0,
         chunks |-> <<>>, resolver |-> FALSE, reading |-> FALSE, lines |-> 0,
         excl |-> {}]

\* Prompt.init(options): _history = [...Prompt.history], _historyMarker =
\* _history.length, a readline interface on process.stdin, keypress attached
NewPrompt(history) ==
  [on |-> TRUE, open |-> TRUE, hist |-> history, marker |-> Len(history),
   chunks |-> <<>>, resolver |-> FALSE, reading |-> FALSE, lines |-> 0,
   excl |-> {}]

\* a Prompt that starts with an empty recall list
NewPromptEmpty(history, exclusions) ==
  [NewPrompt(<<>>) EXCEPT !.excl = exclusions]

\* Prompt.init({ historyExclusions }): the options kept in _options; a
\* regular expression is the set of the inputs it matches
NewPromptWith(history, exclusions) ==
  [NewPrompt(history) EXCEPT !.excl = exclusions]

\* an input that no exclusion matches
NotExcluded(p, input) == FALSE

\* historyExclusions && historyExclusions.some(ex => ex.test(input))
Excluded(p, input) == input \in p.excl

\* Prompt.multiline(): the promise's resolver stored in _resolver, the cursor
\* at the end of the recall list, _chunks emptied, one more 'line' listener
\* (onLine) and one more 'SIGINT' listener (clear) on the interface
Multiline(p) ==
  [p EXCEPT !.resolver = TRUE, !.reading = TRUE, !.marker = Len(p.hist),
            !.chunks = <<>>, !.lines = @ + 1]

\* TeletyCommand.prompt(): the Prompt of this.io, made on first use
PromptOf(p, history) == IF p.on THEN p ELSE NewPrompt(history)

\* _ioClose(): this.io.close() (the 'close' listener _ioClosed finds the
\* prompt inactive and does nothing), this.io = null
IoClose(p) == NoIo

\* Prompt.toSingle(chunks): the single-line executable form
PromptToSingle(chunks) == ToSingle(chunks)

\* Prompt.addHistory(input): a HistoryEntry appended to the recall list
AddHistory(p, input, sub) == [p EXCEPT !.hist = Append(@, Entry(input, sub))]

\* Prompt._addHistory: this._history.push(hist), the Prompt's own recall list
PushHistory(p, input, sub) == [p EXCEPT !.hist = Append(@, Entry(input, sub))]

\* Prompt._addHistory: chunks.map(t => t.replace(REG.LF, '')).join(' ')
HistoryInput(chunks) == JoinWith([i \in 1..Len(chunks) |-> StripLF(chunks[i])], <<SP>>)

\* the lines typed at the prompt of join; the annotation is typed in the
\* scenarios that are not local, as the session's first line
JoinLines ==
  IF Net /\ phist = <<>> /\ nMsgs = 0 THEN Lines ELSE Lines \ { <<HASH, "a">> }

\* the input of the channel's message number i
MsgChars == << "h", "m", "n", "o", "p", "q" >>

MsgText(i) == << MsgChars[i + 1] >>

\* the channel's messages listed by initMessages()
Listings == { <<>>, << MsgText(0) >> }

\* TeletyCommand._teardown(code)
JoinTeardown ==
  IF j.child # 0
  THEN j' = [j EXCEPT !.child = 0] /\ proc' = proc
  ELSE j' = j /\ proc' = "exited"

\* next(): _ioClose(), this.tty = this.prompt().multiline()
JoinNextBody ==
  /\ io' = Multiline(NewPrompt(phist))
  /\ lineBuf' = <<>>
  /\ nReads' = nReads + 1

\* Prompt.onLine, one call of the 'line' listener attached by multiline(), on
\* the prompt p, the shared history, the microtask queue and the pending reads
OnLine(st, chunk) ==
  LET chunks == Append(st.p.chunks, chunk)
      input  == HistoryInput(chunks)
  IN
  IF chunk = <<>> THEN st
  ELSE IF EndsLF(chunk) THEN [st EXCEPT !.p.chunks = chunks]
  ELSE \* _finish(this._chunks); this._chunks = []
       [p     |-> [(IF Excluded(st.p, input) THEN st.p
                    ELSE PushHistory(st.p, input, PromptToSingle(chunks)))
                     EXCEPT !.resolver = FALSE, !.chunks = <<>>],
        hist  |-> IF Excluded(st.p, input) THEN st.hist
                  ELSE Append(st.hist, Entry(input, PromptToSingle(chunks))),
        q     |-> IF st.p.resolver
                  THEN Append(st.q, [Job("joinRead", 0, 0) EXCEPT !.v = chunks])
                  ELSE st.q,
        reads |-> IF st.p.resolver THEN st.reads - 1 ELSE st.reads]

\* the readline 'line' event: every attached 'line' listener runs in turn
JoinLine(line) ==
  LET chunk == TrimTrail(line)
      st0   == [p |-> io, hist |-> phist, q |-> mq, reads |-> nReads]
      st1   == OnLine(st0, chunk)
      st    == IF io.lines > 1 THEN OnLine(st1, chunk) ELSE st1
  IN
  /\ proc = "running" /\ mode = "join" /\ io.on /\ io.open /\ io.reading
  /\ mq = <<>> \/ burst
  /\ spawned < Budget(MaxSpawn) /\ Len(phist) + io.lines <= MaxHist
  /\ EndsLF(chunk) => nCont < MaxCont
  /\ lineBuf' = <<>>
  /\ ev' = NoEv
  /\ io' = st.p /\ phist' = st.hist /\ mq' = st.q /\ nReads' = st.reads
  /\ nCont' = IF EndsLF(chunk) THEN nCont + 1 ELSE nCont
  /\ submitted' = IF chunk = <<>> \/ EndsLF(chunk) THEN submitted ELSE submitted + 1
  /\ burst' = (mq' # <<>>)
  /\ UNCHANGED << mode, scn, proc, procVars, hostVars, j, recv, sockVars >>

\* Prompt.onKeypress, the 'keypress' listener attached by the constructor
JoinKeypress(key) ==
  LET m == Clamp(io.marker + (IF key = "up" THEN -1 ELSE 1), Len(io.hist)) IN
  /\ Idle /\ mode = "join" /\ io.on /\ io.open
  /\ IF io.chunks = <<>>
     THEN /\ io' = [io EXCEPT !.marker = m]
          /\ lineBuf' = ClearLine(lineBuf) \o EntryAt(io.hist, m)
          /\ ev' = Ev("key", IF key = "up" THEN 1 ELSE 2, <<>>)
     ELSE /\ UNCHANGED << io, lineBuf >>
          /\ ev' = NoEv
  /\ burst' = FALSE
  /\ UNCHANGED << mode, scn, proc, mq, procVars, hostVars, j, phist, recv, sockVars,
                  nReads, submitted, nCont >>

\* Prompt.clear, the readline 'SIGINT' listener attached by multiline()
JoinInterrupt ==
  /\ Idle /\ mode = "join" /\ io.on /\ io.open /\ io.reading
  /\ lineBuf' = ClearLine(lineBuf)
  /\ ev' = Ev("interrupt", nReads, <<>>)
  /\ burst' = FALSE
  /\ UNCHANGED << mode, scn, proc, mq, procVars, hostVars, joinVars, sockVars,
                  nReads, submitted, nCont >>

\* _ioClosed, the readline 'close' listener, on end of transmission (CTRL-D)
JoinEOT ==
  /\ Idle /\ mode = "join" /\ io.on /\ io.open /\ lineBuf = <<>>
  /\ io' = [io EXCEPT !.open = FALSE]
  /\ IF io.resolver THEN JoinTeardown ELSE UNCHANGED << j, proc >>
  /\ ev' = NoEv
  /\ burst' = FALSE
  /\ UNCHANGED << mode, scn, mq, procVars, hostVars, lineBuf, phist, recv, sockVars,
                  nReads, submitted, nCont >>

\* next() resumes with the chunks read: process(Prompt.toSingle(input))
JoinRead ==
  LET input == PromptToSingle(Head(mq).v) IN
  /\ HeadIs("joinRead") /\ mode = "join"
  /\ IF IsQuit(input)
     THEN /\ JoinTeardown
          /\ mq' = IF j.child # 0 THEN Append(Tail(mq), Job("joinLoop", 0, 1))
                                  ELSE Tail(mq)
          /\ UNCHANGED << io, procVars >>
     ELSE \* spawn(input): _ioClose(), child.spawn, ChildPromise.resolve
          /\ io' = IoClose(io)
          /\ j' = [j EXCEPT !.child = spawned + 1]
          /\ SpawnChild([Job("joinSettle", 0, 0) EXCEPT !.v = spawned + 1])
          /\ mq' = Tail(mq)
          /\ proc' = proc
  /\ ev' = Ev("input", Len(phist), << input, input, spawned' - spawned >>)
  /\ burst' = FALSE
  /\ UNCHANGED << mode, scn, hostVars, lineBuf, phist, recv, sockVars, nReads,
                  submitted, nCont >>

\* spawn: .then(() => this.succeeded = true, () => this.succeeded = false)
JoinSettle ==
  /\ HeadIs("joinSettle")
  /\ j' = [j EXCEPT !.succeeded = IF Head(mq).a = 1 THEN "true" ELSE "false",
                    !.settled = Head(mq).v]
  /\ mq' = Append(Tail(mq), Job("joinClear", 0, 0))
  /\ ev' = Ev("settle", Head(mq).a, <<>>)
  /\ burst' = FALSE
  /\ UNCHANGED << mode, scn, proc, procVars, hostVars, lineBuf, io, phist, recv,
                  sockVars, nReads, submitted, nCont >>

\* spawn: .then(() => this.child = null); process() then resumes and returns
JoinClear ==
  /\ HeadIs("joinClear")
  /\ j' = [j EXCEPT !.child = 0]
  /\ mq' = Append(Tail(mq), Job("joinLoop", 0, 1))
  /\ ev' = Ev("clear", 0, <<>>)
  /\ burst' = FALSE
  /\ UNCHANGED << mode, scn, proc, procVars, hostVars, lineBuf, io, phist, recv,
                  sockVars, nReads, submitted, nCont >>

\* next() resumes after await this.process(...): this.next()
JoinNext ==
  /\ HeadIs("joinLoop")
  /\ JoinNextBody
  /\ j' = [j EXCEPT !.tty = TRUE]
  /\ mq' = Tail(mq)
  /\ ev' = NoEv
  /\ burst' = FALSE
  /\ UNCHANGED << mode, scn, proc, procVars, hostVars, phist, recv, sockVars,
                  submitted, nCont >>

\* receiver(msg) resumes after await this._deferredExec(): getMessage(id)
RecvResume ==
  /\ HeadIs("recvResume")
  /\ recv' = recv \cup {[msg |-> Head(mq).a, during |-> Head(mq).v]}
  /\ mq' = Tail(mq)
  /\ ev' = NoEv
  /\ burst' = FALSE
  /\ UNCHANGED << mode, scn, proc, procVars, hostVars, lineBuf, j, io, phist,
                  sockVars, nReads, submitted, nCont >>

\* a rejection of getMessage(id) that nothing catches
Unhandled(p) == "crashed"

\* catch (e) { this._warn(e) }: a warning is printed, the process runs on
Warned(p) == p

\* the response to getMessage(id): the rest of receiver's case MSG_TYPE.MSG,
\* or the catch block's _warn(e)
FetchDone(r, ok) ==
  /\ Idle /\ r \in recv
  /\ recv' = recv \ {r}
  /\ proc' = IF ok THEN proc ELSE Warned(proc)
  /\ IF ok
     THEN /\ Len(phist) < MaxHist
          /\ io' = AddHistory(PromptOf(io, phist), MsgText(r.msg), MsgText(r.msg))
          /\ phist' = Append(phist, Entry(MsgText(r.msg), MsgText(r.msg)))
          /\ lineBuf' = IF io.on THEN lineBuf ELSE <<>>
          /\ ev' = Ev("surface", r.msg, << r.during >>)
     ELSE /\ UNCHANGED << io, phist, lineBuf >>
          /\ ev' = NoEv
  /\ burst' = FALSE
  /\ UNCHANGED << mode, scn, mq, procVars, hostVars, j, sockVars, nReads,
                  submitted, nCont >>

(***************************************************************************)
(* SocketClient.  Time is counted in ticks of TickMs milliseconds.         *)
(***************************************************************************)
PING_MS  == 30000
GRACE_MS == 2000
RECON_MS == 2000

TickMs     == RECON_MS
HBTicks    == (PING_MS + GRACE_MS) \div TickMs
ReconTicks == RECON_MS \div TickMs

\* the WebSocket instance of this.ws
Last == conns[Len(conns)]

\* a connect() that opens the previous instance again, listeners and all
SameWs ==
  IF conns = <<>>
  THEN [st |-> "connecting", listeners |-> <<>>, hb |-> -1, cause |-> "-"]
  ELSE [Last EXCEPT !.st = "connecting", !.hb = -1, !.cause = "-"]

\* new WebSocket(this.url, options)
NewWs == [st |-> "connecting", listeners |-> <<>>, hb |-> -1, cause |-> "-"]

\* a heartbeat whose timer runs one tick longer
HeartbeatLate(c) == [c EXCEPT !.hb = HBTicks + 1]

\* heartbeat(): clearTimeout(this.ptimeout); this.ptimeout = setTimeout(...)
Heartbeat(c) == [c EXCEPT !.hb = HBTicks]

\* a 'close' listener that schedules two reconnects
ReconTwice(timers) == timers \o << ReconTicks, ReconTicks >>

\* recon(): setTimeout(() => this.connect(options), 2e3)
Recon(timers) == Append(timers, ReconTicks)

\* a 'close' listener that leaves the timer armed
KeepTimeout(c) == c

\* clearTimeout(this.ptimeout) of the 'close' listener
ClearTimeout(c) == [c EXCEPT !.hb = -1]

\* an open() that attaches no subscription
AttachNone(c, subs) == c

\* self.subs.forEach(s => this.on('message', s))
Attach(c, subs) == [c EXCEPT !.listeners = @ \o subs]

\* a begin() without the guard on this.tty
BeginUnguarded == JoinNextBody /\ j' = [j EXCEPT !.tty = TRUE]

\* begin(): if (!this.tty) this.next()
Begin ==
  IF ~j.tty
  THEN JoinNextBody /\ j' = [j EXCEPT !.tty = TRUE]
  ELSE UNCHANGED << j, io, lineBuf, nReads >>

\* run(): init(): initMessages(), new SocketClient, connect, ready, subscribe
JoinRun ==
  /\ proc = "new" /\ mode = "join"
  /\ proc' = "running"
  /\ \E list \in Listings :
       /\ phist' = [i \in 1..Len(list) |-> Entry(list[i], list[i])]
       /\ io' = IF list = <<>> THEN io
                ELSE [NewPrompt(<<>>) EXCEPT !.hist = phist']
  /\ sock' = [on |-> TRUE, cbs |-> << "focus", "begin" >>, subs |-> << "receiver" >>]
  /\ conns' = << NewWs >>
  /\ ev' = NoEv
  /\ burst' = FALSE
  /\ UNCHANGED << mode, scn, mq, procVars, hostVars, lineBuf, j, recv, recon, quiet,
                  nMsgs, nReads, submitted, nCont >>

\* ready callbacks that are invoked on the first open only
ReadyCallsOnce(cbs) == IF Len(conns) > 1 THEN <<>> ELSE cbs

\* self.cbs.forEach(cb => cb()): every ready callback, in registration order
ReadyCalls(cbs) == cbs

\* the 'open' listeners of the WebSocket: heartbeat, then open()
WsOpen ==
  /\ Idle /\ sock.on /\ Last.st = "connecting"
  /\ conns' = [conns EXCEPT ![Len(conns)] =
                 [Attach(Heartbeat(@), sock.subs) EXCEPT !.st = "open"]]
  /\ IF \E i \in 1..Len(ReadyCalls(sock.cbs)) : ReadyCalls(sock.cbs)[i] = "begin"
     THEN Begin
     ELSE UNCHANGED << j, io, lineBuf, nReads >>
  /\ quiet' = 0
  /\ ev' = Ev("open", Len(conns), ReadyCalls(sock.cbs))
  /\ burst' = FALSE
  /\ UNCHANGED << mode, scn, proc, mq, procVars, hostVars, phist, recv, sock, recon,
                  nMsgs, submitted, nCont >>

\* the 'ping' listener of the WebSocket: heartbeat
WsPing ==
  /\ Idle /\ sock.on /\ Last.st = "open"
  /\ conns' = [conns EXCEPT ![Len(conns)] = Heartbeat(@)]
  /\ quiet' = 0
  /\ ev' = NoEv
  /\ burst' = FALSE
  /\ UNCHANGED << mode, scn, proc, mq, procVars, hostVars, lineBuf, joinVars, sock,
                  recon, nMsgs, nReads, submitted, nCont >>

\* receiver(msg) up to await this._deferredExec(): with a child, a
\* ChildPromise on it (the rejection caught), else an already settled promise
Receive(msg) ==
  [Job("recvResume", msg, IF j.child # 0 THEN 3 ELSE 0)
     EXCEPT !.v = IF alive = {} THEN 0 ELSE CHOOSE c \in alive : TRUE]

\* the 'message' listeners of the WebSocket: the subscriptions attached to it
WsMessage ==
  LET calls == [i \in 1..Len(Last.listeners) |-> Receive(nMsgs + 1)] IN
  /\ Idle /\ sock.on /\ Last.st = "open" /\ nMsgs < Budget(MaxMsgs)
  /\ nMsgs' = nMsgs + 1
  /\ IF j.child # 0
     THEN waiters' = waiters \o calls /\ mq' = mq
     ELSE mq' = mq \o calls /\ waiters' = waiters
  /\ quiet' = 0
  /\ ev' = Ev("message", Len(calls), <<>>)
  /\ burst' = FALSE
  /\ UNCHANGED << mode, scn, proc, alive, spawned, hostVars, lineBuf, joinVars, sock,
                  conns, recon, nReads, submitted, nCont >>

\* the heartbeat timer fires: this.terminate()
HeartbeatExpire ==
  /\ Idle /\ sock.on /\ Last.hb = 0
  /\ conns' = [conns EXCEPT ![Len(conns)] =
                 [@ EXCEPT !.hb = -1,
                           !.st = IF @ = "open" THEN "closing" ELSE @,
                           !.cause = IF Last.st = "open" THEN "heartbeat" ELSE @]]
  /\ ev' = Ev("expire", quiet, <<>>)
  /\ burst' = FALSE
  /\ UNCHANGED << mode, scn, proc, mq, procVars, hostVars, lineBuf, joinVars, sock,
                  recon, quiet, nMsgs, nReads, submitted, nCont >>

\* the 'close' listener of the WebSocket: clearTimeout(ptimeout); recon()
WsClose ==
  /\ Idle /\ sock.on /\ Last.st \in {"open", "closing"}
  /\ conns' = [conns EXCEPT ![Len(conns)] =
                 [ClearTimeout(@) EXCEPT !.st = "closed",
                                         !.cause = IF @ = "-" THEN "remote" ELSE @]]
  /\ recon' = Recon(recon)
  /\ quiet' = 0
  /\ ev' = Ev("close", Len(conns), <<>>)
  /\ burst' = FALSE
  /\ UNCHANGED << mode, scn, proc, mq, procVars, hostVars, lineBuf, joinVars, sock,
                  nMsgs, nReads, submitted, nCont >>

\* an 'error' event of the WebSocket (a failed connection attempt, a
\* transport error): no listener is attached, so the emit throws
WsError ==
  /\ Idle /\ sock.on /\ Last.st \in {"connecting", "open", "failing"}
  /\ conns' = [conns EXCEPT ![Len(conns)] =
                 [@ EXCEPT !.st = "closed", !.cause = "error"]]
  /\ proc' = "crashed"
  /\ ev' = Ev("wserror", Len(conns), <<>>)
  /\ burst' = FALSE
  /\ UNCHANGED << mode, scn, mq, procVars, hostVars, lineBuf, joinVars, sock, recon,
                  quiet, nMsgs, nReads, submitted, nCont >>

\* the reconnect timer fires: this.connect(options)
ReconFire ==
  /\ Idle /\ sock.on /\ recon # <<>> /\ Head(recon) = 0
  /\ Len(conns) < MaxConns
  /\ recon' = Tail(recon)
  /\ conns' = Append(conns, NewWs)
  /\ ev' = Ev("connect", quiet, <<>>)
  /\ quiet' = 0
  /\ burst' = FALSE
  /\ UNCHANGED << mode, scn, proc, mq, procVars, hostVars, lineBuf, joinVars, sock,
                  nMsgs, nReads, submitted, nCont >>

\* ws.terminate(): an open socket is destroyed ('close' follows), a
\* connecting one is aborted ('error' follows)
Terminate(c) ==
  CASE c.st = "open"       -> [c EXCEPT !.st = "closing", !.cause = "terminate"]
    [] c.st = "connecting" -> [c EXCEPT !.st = "failing", !.cause = "terminate"]
    [] OTHER               -> c

\* the process 'SIGINT' listeners: _teardown(0) of TeletyCommand, then
\* _shutdown() of SocketClient
JoinSigint ==
  /\ Idle /\ mode = "join"
  /\ JoinTeardown
  /\ conns' = IF sock.on /\ proc' = "running"
              THEN [conns EXCEPT ![Len(conns)] = Terminate(@)]
              ELSE conns
  /\ ev' = TeardownEv(j.child, 0)
  /\ burst' = FALSE
  /\ UNCHANGED << mode, scn, mq, procVars, hostVars, lineBuf, io, phist, recv, sock,
                  recon, quiet, nMsgs, nReads, submitted, nCont >>

\* the timers that are armed
Timers ==
  (IF conns # <<>> /\ Last.hb >= 0 THEN {Last.hb} ELSE {})
    \cup { recon[i] : i \in 1..Len(recon) }

MinOf(S) == CHOOSE x \in S : \A y \in S : x <= y

\* no event is due at once: no timer has run out, no socket is being torn down
Settled ==
  /\ \A t \in Timers : t > 0
  /\ conns # <<>> => Last.st \notin {"closing", "failing"}

Advance(d) ==
  /\ conns' = IF conns # <<>> /\ Last.hb >= 0
              THEN [conns EXCEPT ![Len(conns)].hb = @ - d]
              ELSE conns
  /\ recon' = [i \in 1..Len(recon) |-> recon[i] - d]
  /\ quiet' = Min(quiet + d, HBTicks)
  /\ ev' = NoEv
  /\ burst' = FALSE
  /\ UNCHANGED << mode, scn, proc, mq, procVars, hostVars, lineBuf, joinVars, sock,
                  nMsgs, nReads, submitted, nCont >>

\* time passes until the next timer is due
Elapse == Idle /\ sock.on /\ Settled /\ Timers # {} /\ Advance(MinOf(Timers))

\* one tick of time passes
Tick == Idle /\ sock.on /\ Settled /\ Advance(1)

(***************************************************************************)
(* Specification.                                                          *)
(***************************************************************************)
\* the state after construction
Start ==
  /\ proc = "new"
  /\ mq = <<>>
  /\ burst = FALSE
  /\ alive = {}
  /\ spawned = 0
  /\ waiters = <<>>
  /\ h = [rl |-> FALSE, disconnected |-> FALSE, hMarker |-> 0, chunk |-> <<>>,
          resolve |-> FALSE, child |-> 0, succeeded |-> "null", history |-> <<>>]
  /\ hooks = {}
  /\ lineBuf = <<>>
  /\ j = [tty |-> FALSE, child |-> 0, succeeded |-> "null", settled |-> 0]
  /\ io = NoIo
  /\ phist = <<>>
  /\ recv = {}
  /\ sock = [on |-> FALSE, cbs |-> <<>>, subs |-> <<>>]
  /\ conns = <<>>
  /\ recon = <<>>
  /\ quiet = 0
  /\ nMsgs = 0
  /\ ev = Ev("new", 0, <<>>)
  /\ nReads = 0
  /\ submitted = 0
  /\ nCont = 0

Init ==
  /\ mode \in {"host", "pipe", "join"}
  /\ scn \in {"local", "net"}
  /\ Start

\* when the user enters a line
UserAt(line) ==
  IF Local THEN hooks = {} /\ recv = {}
  ELSE Idle /\ line \in { <<"a">>, <<HASH, "a">> }

Next ==
  \/ HostRun
  \/ \E line \in Lines : UserAt(line) /\ HostLine(line)
  \/ UserAt(<<>>) /\ Local /\ HostInterrupt
  \/ \E key \in Keys : UserAt(<<>>) /\ Local /\ HostKeypress(key)
  \/ UserAt(<<>>) /\ Local /\ HostEOT
  \/ Net /\ HostSigint
  \/ MicroHop
  \/ HostProcessInput
  \/ \E end \in Ends : ChildEnd(end)
  \/ HostSettle
  \/ HostClear
  \/ HostNext
  \/ \E hk \in hooks, ok \in BOOLEAN : WebhookDone(hk, ok)
  \/ JoinRun
  \/ \E line \in JoinLines : UserAt(line) /\ JoinLine(line)
  \/ \E key \in Keys : UserAt(<<>>) /\ Local /\ JoinKeypress(key)
  \/ UserAt(<<>>) /\ Local /\ JoinInterrupt
  \/ UserAt(<<>>) /\ Local /\ JoinEOT
  \/ Net /\ JoinSigint
  \/ JoinRead
  \/ JoinSettle
  \/ JoinClear
  \/ JoinNext
  \/ RecvResume
  \/ \E r \in recv, ok \in BOOLEAN : FetchDone(r, ok)
  \/ WsOpen
  \/ Net /\ WsPing
  \/ WsMessage
  \/ Net /\ HeartbeatExpire
  \/ Net /\ WsClose
  \/ Net /\ WsError
  \/ Net /\ ReconFire
  \/ Net /\ Elapse

Spec == Init /\ [][Next]_vars

\* the steps of the prompt loop: continuations in the microtask queue, which
\* Node drains before it takes the next event
LoopStep ==
  \/ MicroHop
  \/ HostProcessInput \/ HostSettle \/ HostClear \/ HostNext
  \/ JoinRead \/ JoinSettle \/ JoinClear \/ JoinNext
  \/ RecvResume

\* the program with its microtask queue drained and every child exiting
SpecFair ==
  /\ Init /\ [][Next]_vars
  /\ WF_vars(LoopStep)
  /\ WF_vars(\E end \in Ends : ChildEnd(end))

(***************************************************************************)
(* The socket client of join under a clock: the user stays idle and time   *)
(* passes tick by tick.                                                    *)
(***************************************************************************)
InitTimed ==
  /\ mode = "join"
  /\ scn = "timed"
  /\ Start

NextTimed ==
  \/ JoinRun
  \/ WsOpen
  \/ WsPing
  \/ WsMessage
  \/ RecvResume
  \/ \E r \in recv, ok \in BOOLEAN : FetchDone(r, ok)
  \/ HeartbeatExpire
  \/ WsClose
  \/ WsError
  \/ ReconFire
  \/ Tick

SpecTimed == InitTimed /\ [][NextTimed]_vars

(***************************************************************************)
(* The socket client and a caller of its send(): the connection is made,   *)
(* drops and is made again, and send() is called in any state of it.       *)
(***************************************************************************)
\* ws.send(data) with no callback: an open socket transmits; a connecting one
\* throws; a closing or closed one throws or drops the data, by the version
\* of the library
WsSend(c) ==
  CASE c.st = "open"       -> {"sent"}
    [] c.st = "connecting" -> {"thrown"}
    [] OTHER               -> {"thrown", "dropped"}

\* send(type, data): return this.ws.send(JSON.stringify({ type, data }))
ClientSend(res) ==
  /\ Idle /\ sock.on
  /\ res \in WsSend(Last)
  /\ ev' = Ev("send", Len(conns), << Last.st, res >>)
  /\ burst' = FALSE
  /\ UNCHANGED << mode, scn, proc, mq, procVars, hostVars, lineBuf, joinVars, sockVars,
                  nReads, submitted, nCont >>

InitClient ==
  /\ mode = "join"
  /\ scn = "client"
  /\ Start

NextClient ==
  \/ JoinRun
  \/ WsOpen
  \/ WsPing
  \/ HeartbeatExpire
  \/ WsClose
  \/ WsError
  \/ ReconFire
  \/ Elapse
  \/ \E res \in {"sent", "thrown", "dropped"} : ClientSend(res)

SpecClient == InitClient /\ [][NextClient]_vars

(***************************************************************************)
(* The Prompt class under a caller that uses its public interface: it      *)
(* makes a Prompt, with or without history exclusions, asks for a read,    *)
(* possibly while one is outstanding, awaits it, closes the Prompt and     *)
(* makes the next one.  The user types lines and recall keys.              *)
(***************************************************************************)
\* what the exclusions of a Prompt match: nothing, or the input "a"
ExclusionSets == { {}, { <<"a">> } }

\* Prompt.init(options)
PromptInit(exclusions) ==
  /\ proc \in {"new", "running"} /\ mq = <<>> /\ ~io.on
  /\ proc' = "running"
  /\ io' = NewPromptWith(phist, exclusions)
  /\ ev' = Ev("init", Len(phist), <<>>)
  /\ burst' = FALSE
  /\ UNCHANGED << mode, scn, mq, procVars, hostVars, lineBuf, j, phist, recv,
                  sockVars, nReads, submitted, nCont >>

\* a call of Prompt.multiline(); the promise of a read that was outstanding
\* stays pending
PromptMultiline ==
  /\ Idle /\ io.on /\ io.open /\ io.lines < 2
  /\ io' = Multiline(io)
  /\ nReads' = nReads + 1
  /\ ev' = Ev("read", IF io.resolver THEN 1 ELSE 0, <<>>)
  /\ burst' = FALSE
  /\ UNCHANGED << mode, scn, proc, mq, procVars, hostVars, lineBuf, j, phist,
                  recv, sockVars, submitted, nCont >>

\* the caller's await of multiline() resumes with the chunks
PromptAwait ==
  /\ HeadIs("joinRead")
  /\ mq' = Tail(mq)
  /\ ev' = Ev("chunks", Len(Head(mq).v), <<>>)
  /\ burst' = FALSE
  /\ UNCHANGED << mode, scn, proc, procVars, hostVars, lineBuf, joinVars, sockVars,
                  nReads, submitted, nCont >>

\* Prompt.close(): keypress detached, _resolver = null, the interface closed
PromptClose ==
  /\ Idle /\ io.on
  /\ io' = IoClose(io)
  /\ nReads' = 0
  /\ lineBuf' = <<>>
  /\ ev' = Ev("closed", 0, <<>>)
  /\ burst' = FALSE
  /\ UNCHANGED << mode, scn, proc, mq, procVars, hostVars, j, phist, recv,
                  sockVars, submitted, nCont >>

InitPrompt ==
  /\ mode = "join"
  /\ scn = "prompt"
  /\ Start

NextPrompt ==
  \/ \E exclusions \in ExclusionSets : PromptInit(exclusions)
  \/ PromptMultiline
  \/ \E line \in JoinLines : submitted < MaxHist /\ JoinLine(line)
  \/ \E key \in Keys : JoinKeypress(key)
  \/ JoinInterrupt
  \/ PromptAwait
  \/ PromptClose

SpecPrompt == InitPrompt /\ [][NextPrompt]_vars

(***************************************************************************)
(* The host and pipe prompt fed with every short line over the characters  *)
(* that matter to it: a letter, a space, the continuation marker.  The     *)
(* user types one command, of one or more lines, and waits.                *)
(***************************************************************************)
TextChars == {"a", SP, BS}

TextLines == UNION { [1..n -> TextChars] : n \in 0..MaxLine }

InitText ==
  /\ mode \in {"host", "pipe"}
  /\ scn = "text"
  /\ Start

NextText ==
  \/ HostRun
  \/ \E line \in TextLines : Idle /\ spawned = 0 /\ HostLine(line)
  \/ HostProcessInput
  \/ \E end \in Ends : ChildEnd(end)
  \/ HostSettle
  \/ HostClear
  \/ HostNext
  \/ \E hk \in hooks, ok \in BOOLEAN : WebhookDone(hk, ok)

SpecText == InitText /\ [][NextText]_vars

(***************************************************************************)
(* Properties.                                                             *)
(***************************************************************************)
\* a readline interface is attached to the terminal
HasRl == IF mode = "join" THEN io.on /\ io.open ELSE h.rl

\* the recall list and its cursor
CurHist   == IF mode = "join" THEN io.hist ELSE h.history
CurMarker == IF mode = "join" THEN io.marker ELSE h.hMarker

\* the session's history
History == IF mode = "join" THEN phist ELSE h.history

\* the kinds of microtask of the prompt loop
LoopJobs == {"hostRead", "hostSettle", "hostClear", "hostLoop",
             "joinRead", "joinSettle", "joinClear", "joinLoop"}

\* the entries of the history made for submissions at the prompt
Typed == { i \in 1..Len(History) :
             \A m \in 0..Len(MsgChars) - 1 : History[i].input # MsgText(m) }

\* C1: in join mode a message that arrived while a child was running is
\* surfaced only when that child has exited and its outcome has been set.
C1_DeferredUntilExit ==
  (ev.k = "surface" /\ ev.l[1] # 0) =>
    (ev.l[1] \notin alive /\ j.settled >= ev.l[1])

\* C2: in join mode a message is never surfaced (recall append, render,
\* prompt resume) while any child process is running.
C2_NeverDuringChild == ev.k = "surface" => alive = {}

\* C3: the terminal has at most one owner: at most one child runs, and no
\* readline interface is attached while a child runs (host, pipe and join).
C3_SingleOwner == Cardinality(alive) <= 1 /\ (alive # {} => ~HasRl)

\* C4: at most one prompt read is outstanding, and a read is outstanding only
\* when the processing of the previous one, the child's exit included, is over.
C4_OneRead ==
  /\ nReads <= 1
  /\ nReads = 1 =>
       /\ alive = {}
       /\ \A i \in 1..Len(mq) : mq[i].k \notin LoopJobs

C4_ReadAcrossReconnect ==
  mode = "join" /\ ev.k = "open" /\ Len(conns) >= 2 /\ nReads = 1 /\ j.tty

\* C5: every submission yields exactly one HistoryEntry whose input is the
\* submission's chunks, markers stripped, joined by one space: the entries
\* carry the submitted text, none is recorded twice, and none is missing once
\* the next read is open or the process has stopped on an error.
C5_OneEntryPerSubmission ==
  /\ \A i \in 1..Len(History) : History[i].input = History[i].sub
  /\ Cardinality(Typed) <= submitted
  /\ (nReads = 1 \/ proc = "crashed") => Cardinality(Typed) = submitted

\* C6: the history cursor stays within [0, historyLength]; after an up or
\* down keypress the cursor has moved one step, clamped, and the line buffer
\* shows the entry at the cursor, or nothing when the cursor is at the end.
C6_CursorState ==
  /\ CurMarker \in 0..Len(CurHist)
  /\ ev.k = "key" =>
       lineBuf = IF CurMarker = Len(CurHist) THEN <<>>
                 ELSE CurHist[CurMarker + 1].input

C6_CursorStep ==
  ev'.k = "key" =>
    CurMarker' = IF ev'.a = 1 THEN Max(CurMarker - 1, 0)
                 ELSE Min(CurMarker + 1, Len(CurHist))

C7_HeartbeatTimeout ==
  /\ (conns # <<>> /\ Last.st = "open") =>
       (Last.hb >= 0 /\ quiet + Last.hb <= HBTicks)
  /\ ev.k = "expire" =>
       (Last.st = "closing" /\ Last.cause = "heartbeat" /\ Last.hb = -1)
  /\ (ev.k = "close" /\ Last.cause = "heartbeat") =>
       (Last.st = "closed" /\ Last.hb = -1 /\ recon = << ReconTicks >>)
  /\ ev.k = "connect" => (ev.a = ReconTicks /\ recon = <<>>)

C7_ReconnectAfterTimeout ==
  /\ ev.k = "connect" /\ Len(conns) >= 2
  /\ conns[Len(conns) - 1].cause = "heartbeat" /\ nMsgs = 0

\* C8: on every open, the first and every later one, the subscriptions are
\* attached to the new instance and the ready callbacks are invoked, each
\* once, in registration order.
C8_OpenReapplies ==
  ev.k = "open" =>
    /\ Last.st = "open"
    /\ Last.listeners = sock.subs
    /\ ev.l = sock.cbs
    /\ j.tty

C8_Reopened == ev.k = "open" /\ Len(conns) >= 2 /\ nMsgs = 0

\* C9: after any number of reconnects a message arriving on the current
\* connection is delivered once to each subscription.
C9_DeliveredOnce ==
  /\ (conns # <<>> /\ Last.st = "open") => Last.listeners = sock.subs
  /\ ev.k = "message" => ev.a = Len(sock.subs)

C9_AfterReconnect == ev.k = "message" /\ ev.a = 1 /\ Len(conns) >= 2

\* C10: every transition of the connection to Closed, whatever its cause, is
\* followed by a new connection attempt: while the program has not exited, a
\* closed connection has its reconnect pending and the program runs.
C10_ClosedReconnects ==
  (conns # <<>> /\ Last.st = "closed" /\ proc # "exited") =>
    (proc = "running" /\ recon # <<>>)

\* C11: a process SIGINT force-closes the connection and bypasses reconnect:
\* a connection closed by that terminate has no reconnect pending, and no
\* connection is made after it.
C11_SigintNoReconnect ==
  /\ (conns # <<>> /\ Last.st = "closed" /\ Last.cause = "terminate") => recon = <<>>
  /\ \A i \in 1..Len(conns) - 1 : conns[i].cause # "terminate"

\* C12: in host mode a comment input creates no HistoryEntry and spawns
\* nothing; with an empty history it sends no notification; the process runs
\* on and the prompt loop goes to its next read.
C12_CommentOnly ==
  (ev.k = "input" /\ mode = "host" /\ ev.l[1] # <<>> /\ ev.l[1][1] = HASH) =>
    /\ Len(h.history) = ev.a
    /\ alive = {} /\ waiters = <<>> /\ h.child = 0 /\ h.rl
    /\ ev.a = 0 => hooks = {}
    /\ proc = "running"
    /\ \E i \in 1..Len(mq) : mq[i].k = "hostLoop"

C12_CommentOnEmpty ==
  ev.k = "input" /\ mode = "host" /\ ev.l[1] = << HASH, "a" >> /\ ev.a = 0 /\ hooks = {}

\* the command's child handle and outcome
Child     == IF mode = "join" THEN j.child ELSE h.child
Succeeded == IF mode = "join" THEN j.succeeded ELSE h.succeeded

\* a microtask of kind k is queued
Queued(k) == \E i \in 1..Len(mq) : mq[i].k = k

\* once the prompt loop has started, the process at rest with no child
\* running has its next read open
ReadOpenAtRest ==
  (Idle /\ alive = {} /\ (mode = "join" => j.tty)) => nReads = 1

\* C13: in host mode the id returned for a message notification is written to
\* the entry of the same submission, whether the response comes before or
\* after the child's exit and whatever was appended meanwhile; the response
\* leaves the outcome as the child's exit set it.
C13_IdOnOwnEntry ==
  mode = "host" =>
    /\ \A i \in 1..Len(h.history) : h.history[i].id \in {0, i}
    /\ (ev.k = "hook" /\ ev.a > 0 /\ ev.l[1] = 1) => h.history[ev.a].id = ev.a
    /\ ev.k = "hook" => h.succeeded = ev.l[2]

C13_LateResponse ==
  /\ mode = "host" /\ ev.k = "hook" /\ ev.a = 1 /\ ev.l[1] = 1
  /\ Len(h.history) = 2 /\ h.history[1].id = 1 /\ h.history[2].id = 0
  /\ alive # {}

\* C14: a failed notification POST is swallowed: the process runs on, the
\* entry's id stays absent, the outcome is left as it was, and with the child
\* gone the next read is open whether or not a notification is still pending.
C14_FailureSwallowed ==
  mode \in {"host", "pipe"} =>
    /\ (ev.k = "hook" /\ ev.l[1] = 0) =>
         /\ proc = "running"
         /\ ev.a > 0 => h.history[ev.a].id = 0
         /\ h.succeeded = ev.l[2]
    /\ ReadOpenAtRest

C14_FailedAfterExit ==
  /\ mode = "host" /\ ev.k = "hook" /\ ev.l[1] = 0 /\ ev.a = 1
  /\ h.succeeded # "null" /\ alive = {} /\ nReads = 1

\* C15: a child that ends with an 'error' event or a non-zero code sets the
\* outcome to Failed, one that exits with code 0 sets it to Succeeded; either
\* way the process runs on, the child handle is cleared and the prompt loop
\* opens its next read.
C15_Outcome ==
  /\ ev.k = "childEnd" =>
       /\ proc = "running"
       /\ Queued("hostSettle") \/ Queued("joinSettle")
       /\ \A i \in 1..Len(mq) :
            mq[i].k \in {"hostSettle", "joinSettle"} =>
              /\ ev.l[1] = "zero" => mq[i].a = 1
              /\ ev.l[1] \in {"nonzero", "error"} => mq[i].a = 0
  /\ ev.k = "settle" =>
       /\ Succeeded = IF ev.a = 1 THEN "true" ELSE "false"
       /\ proc = "running"
       /\ Queued("hostClear") \/ Queued("joinClear")
  /\ ev.k = "clear" =>
       /\ Child = 0 /\ proc = "running"
       /\ Queued("hostLoop") \/ Queued("joinLoop")
  /\ ReadOpenAtRest

C15_ReadAfterFailure ==
  /\ Idle /\ nReads = 1 /\ spawned = 1 /\ alive = {}
  /\ Succeeded = "false" /\ Child = 0 /\ mode = "join"

\* C16: a quit token submitted while no child runs ends the program by
\* teardown(0): the program has exited, nothing was spawned for the
\* submission, and the history holds no entry for it.
C16_QuitExits ==
  (ev.k = "input" /\ IsQuit(ev.l[2])) =>
    /\ proc = "exited"
    /\ alive = {} /\ Child = 0
    /\ \A i \in 1..Len(History) : ~IsQuit(History[i].input)

\* C17: a teardown made while a child handle is active sends the child a
\* terminating signal and does not exit the program; the program exits only
\* by a teardown that finds no child handle.
C17_TeardownSignalsChild ==
  /\ (ev.k = "teardown" /\ ev.a # 0) => (proc = "running" /\ ev.l[1] # 0)
  /\ (ev.k = "teardown" /\ ev.a = 0) => proc = "exited"
  /\ proc = "exited" => Child = 0

\* C18: CTRL-C while a prompt read is outstanding resolves that read with
\* null; the cancelled read makes no HistoryEntry, spawns nothing and sends no
\* notification, and the loop goes on to a new read (host and join).
C18_InterruptCancels ==
  /\ (ev.k = "interrupt" /\ ev.a = 1) =>
       /\ nReads = 0
       /\ \E i \in 1..Len(mq) : mq[i].k \in {"hostRead", "joinRead"} /\ mq[i].v = <<>>
  /\ (ev.k = "input" /\ ev.l[2] = <<>>) =>
       /\ Len(History) = ev.a
       /\ alive = {} /\ hooks = {} /\ proc = "running"
       /\ Queued("hostLoop") \/ Queued("joinLoop")

\* C19: the lines `a \` and `a` make one submission whose single-line form
\* is exactly "a a"; in general the single-line form is the chunks, markers
\* stripped, joined by one space.
C19_SingleLine ==
  (ev.k = "input" /\ ev.l[1] # <<>>) =>
    /\ ev.l[1] = JoinWith([i \in 1..Len(h.chunk) |-> StripLF(h.chunk[i])], << SP >>)
    /\ h.chunk = << << "a", SP, BS >>, << "a" >> >> => ev.l[1] = << "a", SP, "a" >>

\* C20: every inbound signal on the open connection, a message as well as a
\* ping, re-arms the liveness timer: the timer of an open connection runs out
\* a full deadline after the last signal heard, and never sooner.
C20_AnyTrafficResets ==
  /\ (conns # <<>> /\ Last.st = "open") => quiet + Last.hb = HBTicks
  /\ (ev.k = "expire" /\ Last.cause = "heartbeat") => ev.a = HBTicks

\* C21: send() on a connection that is not open fails silently: no error is
\* raised to the caller and the data is dropped.
C21_SendFailsSilently ==
  (ev.k = "send" /\ ev.l[1] # "open") => ev.l[2] = "dropped"

\* C22: a transport error (a dropped connection, a failed attempt, an error
\* event) is never fatal: the process runs on, and once the connection is
\* down a reconnect is scheduled.
C22_TransportErrorSurvived ==
  /\ proc # "crashed"
  /\ ev.k \in {"wserror", "close"} => (proc = "running" /\ recon # <<>>)

\* C23: a read requested on a Prompt while a read is outstanding is refused:
\* the pending read keeps its resolver, so one read is pending and one line
\* listener is attached afterwards.
C23_SecondReadRefused ==
  (ev.k = "read" /\ ev.a = 1) => (nReads = 1 /\ io.lines = 1)

\* C24: a non-empty input is a quit directive, else an annotation, else an
\* executable: a quit directive and an annotation spawn nothing, an executable
\* spawns a child, and a spawn leaves no readline attached.
C24_Classified ==
  (ev.k = "input" /\ ev.l[1] # <<>>) =>
    /\ (IsQuit(ev.l[1]) \/ IsComment(ev.l[1])) <=> ev.l[3] = 0
    /\ ev.l[3] = 1 => ~HasRl

\* C25: after an executable input, however its child ends, the child handle
\* is eventually cleared and a new read is eventually open, in a process that
\* the user has not ended meanwhile.
C25_PromptReopens ==
  (ev.k = "input" /\ ev.l[3] = 1) ~> ((Child = 0 /\ nReads = 1) \/ proc = "exited")

\* C26: a submission whose input matches a history exclusion of the Prompt
\* is resolved to the caller with its chunks, and is written neither to the
\* Prompt's recall list nor to the shared history.
C26_ExcludedNotRecorded ==
  [][ \A line \in Lines :
        LET chunk  == TrimTrail(line)
            chunks == Append(io.chunks, chunk)
        IN
        ( /\ JoinLine(line)
          /\ chunk # <<>> /\ ~EndsLF(chunk)
          /\ HistoryInput(chunks) \in io.excl )
        => /\ phist' = phist
           /\ io'.hist = io.hist
           /\ io.resolver =>
                /\ mq' = Append(mq, [Job("joinRead", 0, 0) EXCEPT !.v = chunks])
                /\ nReads' = nReads - 1 ]_vars

C26_ExcludedResolved ==
  /\ scn = "prompt" /\ io.excl # {}
  /\ phist = <<>> /\ io.hist = <<>> /\ submitted = 1
  /\ mq # <<>> /\ Head(mq).k = "joinRead" /\ Head(mq).v = << << "a" >> >>

\* C27: the history is shared by the Prompt instances of the process: a
\* Prompt holds, in order, every entry appended before it was made and every
\* entry appended through it, and the shared history only grows at its end.
C27_SharedHistory ==
  /\ [](io.on => io.hist = phist)
  /\ [][ /\ Len(phist') >= Len(phist)
         /\ SubSeq(phist', 1, Len(phist)) = phist ]_vars

C27_RecallSurvivesClose ==
  /\ ev.k = "init" /\ ev.a >= 1
  /\ io.on /\ io.hist = phist /\ Len(io.hist) >= 1

\* C28: in the running process no connection that is connecting, or that has
\* closed (by the remote end, by heartbeat expiry or by a forced terminate),
\* has its heartbeat timer armed.
C28_TimerOnlyWhileOpen ==
  proc = "running" =>
    \A i \in 1..Len(conns) :
      conns[i].st \in {"connecting", "failing", "closed"} => conns[i].hb = -1

C28_ClosedWhileArmed ==
  /\ proc = "running" /\ ev.k = "close"
  /\ Last.st = "closed" /\ Last.cause \in {"remote", "terminate"} /\ Last.hb = -1
  /\ quiet = 0

\* C29: while a child process is running the outcome holds no value.
C29_NullWhileRunning == alive # {} => Succeeded = "null"

\* C30: while a continuation chunk is pending, an up or down keypress leaves
\* the history cursor and the line buffer as they are, at the Prompt of join
\* and at the prompt of host and pipe.
C30_NoRecallMidEntry ==
  [][ \A key \in Keys :
        /\ (JoinKeypress(key) /\ io.chunks # <<>>) =>
              (io'.marker = io.marker /\ lineBuf' = lineBuf)
        /\ (HostKeypress(key) /\ h.chunk # <<>>) =>
              (h'.hMarker = h.hMarker /\ lineBuf' = lineBuf) ]_vars

\* C31: a comment notification made with a non-empty history carries the id
\* of the most recent entry, a defined id, whether that entry's own message
\* notification is pending, has failed or has been answered.
C31_CommentCarriesId ==
  /\ \A hk \in hooks : hk.type = "comment" => hk.id # 0
  /\ (mode = "host" /\ ev.k = "input" /\ IsComment(ev.l[1]) /\ ev.a >= 1) =>
       \E hk \in hooks : hk.type = "comment" /\ hk.id = ev.a

\* C32: the detach of the prompt by the program, before a spawn or when the
\* loop opens the next read, never tears down; end of transmission from the
\* user while a read is outstanding does: the running child is signalled and
\* its handle cleared or, with no child, the process exits.
C32_DetachIsNotEOT ==
  [][ /\ ( \/ HostNext \/ JoinNext
           \/ (HostProcessInput /\ ~IsQuit(ToSingle(h.chunk)))
           \/ (JoinRead /\ ~IsQuit(PromptToSingle(Head(mq).v))) )
         => (proc' = "running" /\ ev'.k # "teardown")
      /\ ((HostEOT \/ JoinEOT) /\ nReads = 1)
         => IF Child # 0 THEN Child' = 0 /\ proc' = "running"
                         ELSE proc' = "exited" ]_vars

C32_DetachedForSpawn ==
  /\ ev.k = "input" /\ ev.l[3] = 1 /\ proc = "running" /\ ~HasRl
  /\ Child = spawned

\* C33: in join mode a failed fetch of an inbound message is swallowed: the
\* recall list, the shared history, the rendered line, the prompt loop, the
\* child and the process are as before, and the other messages received stay
\* in handling.
C33_FetchFailureSwallowed ==
  [][ \A r \in recv :
        FetchDone(r, FALSE) =>
          /\ io' = io /\ phist' = phist /\ lineBuf' = lineBuf
          /\ proc' = proc /\ mq' = mq /\ nReads' = nReads
          /\ alive' = alive /\ j' = j /\ waiters' = waiters
          /\ recv' = recv \ {r} ]_vars

C33_LaterMessageSurfaced ==
  /\ mode = "join" /\ nMsgs = 2 /\ recv = {} /\ proc = "running"
  /\ ev.k = "surface" /\ ev.a = 2
  /\ \A i \in 1..Len(phist) : phist[i].input # MsgText(1)

\* C34: in join mode the messages received are appended to the recall list
\* in the order of their arrival.
C34_ArrivalOrder ==
  \A a, b \in 1..Len(phist), m, n \in 1..MaxMsgs :
    (a < b /\ phist[a].input = MsgText(m) /\ phist[b].input = MsgText(n)) => m <= n

\* C35: while a spawned process has not exited the child handle holds it: the
\* handle is set at the spawn and cleared only after the child's exit.
C35_HandleWhileAlive == alive # {} => Child \in alive

\* C36: a line that arrives when no read is outstanding makes no history
\* entry and is not handed on for execution, at the Prompt of join and at the
\* prompt of host and pipe.
C36_NoReadNoEntry ==
  [][ \A line \in Lines :
        /\ (JoinLine(line) /\ ~io.resolver) => (phist' = phist /\ mq' = mq)
        /\ (HostLine(line) /\ ~h.resolve) =>
              (h'.history = h.history /\ mq' = mq) ]_vars

\* C37: a child that did not exit with code 0 (a non-zero code, a signal, a
\* failed spawn) is never recorded as succeeded: the settlement made at its
\* end is a rejection.
C37_SucceededOnlyOnZero ==
  (ev.k = "childEnd" /\ ev.l[1] # "zero") =>
    \A i \in 1..Len(mq) : mq[i].k \in {"hostSettle", "joinSettle"} => mq[i].a = 0

\* C38: an interrupt during a multi-line entry discards the chunks entered
\* so far: at the Prompt of join none is pending after it; at the prompt of
\* host and pipe the read ends with no submission and the next read starts
\* with no chunk.
C38_InterruptDiscards ==
  [][ /\ JoinInterrupt => io'.chunks = <<>>
      /\ (HostInterrupt /\ h.resolve) =>
            (mq' # <<>> /\ mq'[Len(mq')].k = "hostRead" /\ mq'[Len(mq')].a = 0)
      /\ HostNext => h'.chunk = <<>> ]_vars

\* C39: at most one connection is connecting or open and at most one
\* reconnect timer is pending; a connection that closes schedules one
\* reconnect, and a connection is made only by run() and by that timer.
C39_OneConnection ==
  /\ [](/\ Cardinality({ i \in 1..Len(conns) :
                           conns[i].st \in {"connecting", "open"} }) <= 1
        /\ Len(recon) <= 1)
  /\ [][ /\ WsClose => Len(recon') = Len(recon) + 1
         /\ Len(conns') > Len(conns) =>
               (Len(conns') = Len(conns) + 1 /\ (JoinRun \/ ReconFire)) ]_vars

C39_Reconnected ==
  /\ Len(conns) = 2 /\ ev.k = "connect" /\ recon = <<>>
  /\ conns[1].st = "closed" /\ conns[1].cause = "terminate"
  /\ conns[2].st = "connecting"

\* C40: in join mode every open, the first and every later one, sends one
\* channel:focus on the connection just opened, and an open that finds the
\* prompt loop started leaves the loop and its read as they are.
C40_FocusOnEveryOpen ==
  /\ [](ev.k = "open" =>
          /\ Cardinality({ i \in 1..Len(ev.l) : ev.l[i] = "focus" }) = 1
          /\ ev.a = Len(conns) /\ WsSend(Last) = {"sent"})
  /\ [][ (WsOpen /\ j.tty) => UNCHANGED << j, io, nReads >> ]_vars

C40_FocusAfterReconnect ==
  /\ mode = "join" /\ ev.k = "open" /\ ev.a = 2 /\ Last.st = "open"
  /\ \E i \in 1..Len(ev.l) : ev.l[i] = "focus"
  /\ j.tty /\ nReads = 1 /\ conns[1].st = "closed"

====
